---- MODULE Spec2Model ----
(***************************************************************************)
(* Model of the f80 crate (src/src/lib.rs, src/src/arch/x86_64.rs).        *)
(*                                                                         *)
(* An unsigned machine integer is modelled as the set of the positions of  *)
(* its 1 bits (bit 0 is the least significant), so that the 128-bit, 80-bit*)
(* and 64-bit quantities of the program keep their exact width: a mask is  *)
(* an intersection, a shift moves the positions, and an addition is a      *)
(* carry propagation that can leave the width.                             *)
(***************************************************************************)
EXTENDS Integers, FiniteSets

(***************************************************************************)
(* Bounds of the input space explored.                                     *)
(***************************************************************************)
\* Exponent fields are taken within ExpSpread of each boundary value.
ExpSpread == 1
\* Fractions have at most MaxOnes bits set (or cleared) among the probed
\* positions.
MaxOnes == 2

(***************************************************************************)
(* Machine integers as sets of bit positions.                              *)
(***************************************************************************)
Shl(S, n) == {i + n : i \in S}

Shr(S, n) == {i - n : i \in {j \in S : j >= n}}

\* The low w bits: a cast to a w-bit unsigned type, or the wrap of a w-bit
\* operation.
Trunc(S, w) == {i \in S : i < w}

And(A, B) == A \cap B

Or(A, B) == A \cup B

Xor(A, B) == (A \ B) \cup (B \ A)

\* Mathematical addition (no width): carries propagate until none is left.
RECURSIVE Add(_, _)
Add(A, B) == IF B = {} THEN A ELSE Add(Xor(A, B), Shl(And(A, B), 1))

\* A - B modulo 2^w: borrows propagate until they leave the width.
RECURSIVE SubW(_, _, _)
SubW(A, B, w) ==
    IF B = {} THEN A ELSE SubW(Xor(A, B), Trunc(Shl(B \ A, 1), w), w)

\* A < B as numbers: the highest position where they differ is in B.
Less(A, B) ==
    LET D == Xor(A, B)
    IN  D # {} /\ (CHOOSE i \in D : \A j \in D : j <= i) \in B

\* The number a (small) bit set stands for.
RECURSIVE ToInt(_)
ToInt(S) ==
    IF S = {} THEN 0
    ELSE LET i == CHOOSE j \in S : TRUE IN 2^i + ToInt(S \ {i})

\* The w-bit pattern of a number 0 <= n < 2^w (w <= 30).
FromInt(n, w) == {i \in 0..(w - 1) : (n \div 2^i) % 2 = 1}

(***************************************************************************)
(* struct f80 { bits: u128 } and its methods.                              *)
(***************************************************************************)
\* (1 << end) - 1 in u128, for every shift count that does not overflow.
OnesBelow[end \in 0..127] == SubW(Shl({0}, end), {0}, 128)

\* (1 << n) - 1 in u64.
OnesBelow64[n \in 0..63] == SubW(Shl({0}, n), {0}, 64)

\* Mutant: the mask is one bit short, (1 << 79) - 1.
from_bits_mask79(x) == And(x, OnesBelow[79])

\* bits & ((1 << 80) - 1)
from_bits(x) == And(x, OnesBelow[80])

to_bits(self) == self

\* let mask = (1 << end) - 1; (self.bits & mask) >> start
range(self, start, end) ==
    LET mask == OnesBelow[end]
    IN  Shr(And(self, mask), start)

\* Mutant: the fraction takes the integer bit too, range(0, 64).
fraction_with_int(self) == Trunc(range(self, 0, 64), 64)

\* self.range(0, 63) as u64
fraction(self) == Trunc(range(self, 0, 63), 64)

\* self.range(63, 64) == 1
int(self) == range(self, 63, 64) = {0}

\* Mutant: the exponent takes the sign bit too, range(64, 80).
exp_bits_with_sign(self) == Trunc(range(self, 64, 80), 16)

\* self.range(64, 79) as u16
exp_bits(self) == Trunc(range(self, 64, 79), 16)

\* u16 as i16: the same 16 bits read in two's complement.
AsI16(S) == IF 15 \in S THEN ToInt(S) - 2^16 ELSE ToInt(S)

\* The mathematical value of  self.exp_bits() as i16 - ((1 << 14) - 1).
exp_exact(self) == AsI16(exp_bits(self)) - (2^14 - 1)

\* Whether that subtraction leaves the signed 16-bit range.
exp_overflows(self) == exp_exact(self) < -(2^15) \/ exp_exact(self) > 2^15 - 1

\* The i16 it returns (wrapped when it overflows and overflow is unchecked).
exp(self) ==
    LET v == exp_exact(self)
    IN  IF v < -(2^15) THEN v + 2^16 ELSE IF v > 2^15 - 1 THEN v - 2^16 ELSE v

\* self.range(79, 80) == 1
sign(self) == range(self, 79, 80) = {0}

\* i16 as u64: sign extension to 64 bits.
I16AsU64(v) ==
    IF v >= 0 THEN FromInt(v, 16) ELSE FromInt(v + 2^16, 16) \cup (16..63)

\* bool as u64
BoolAsU64(b) == IF b THEN {0} ELSE {}

\* Mutant: the bias is 1 << 10, the  - 1  forgotten.
RebiasSum_bias1024(self) == Add(I16AsU64(exp(self)), Shl({0}, 10))

\* exp += f64_bias, before the wrap to 64 bits: position 64 is the carry out.
\* f64_bias is (1 << 10) - 1.
RebiasSum(self) == Add(I16AsU64(exp(self)), OnesBelow64[10])

\* Whether  exp += f64_bias  overflows u64.
to_f64_overflows(self) == \E i \in RebiasSum(self) : i >= 64

\* Mutant: the fraction is rounded to nearest instead of truncated (bit 10,
\* the highest dropped bit, is added back before the shift).
to_f64_rounding(self) ==
    LET fraction0 == Trunc(Add(fraction(self), And(fraction(self), {10})), 64)
        fraction1 == Shr(fraction0, 64 - 53)
        exp1      == Trunc(Add(I16AsU64(exp(self)), OnesBelow64[10]), 64)
        output2   == Trunc(Shl(BoolAsU64(sign(self)), 11), 64)
        output3   == Or(output2, And(exp1, OnesBelow64[11]))
        output4   == Trunc(Shl(output3, 52), 64)
    IN  Or(output4, And(fraction1, OnesBelow64[52]))

\* The bits of the f64 that to_f64 returns (f64::from_bits(output)).
to_f64(self) ==
    LET fraction0 == Trunc(fraction(self), 64)
        fraction1 == Shr(fraction0, 64 - 53)
        exp1      == Trunc(RebiasSum(self), 64)
        sign0     == BoolAsU64(sign(self))
        output1   == Or({}, sign0)
        output2   == Trunc(Shl(output1, 11), 64)
        output3   == Or(output2, And(exp1, OnesBelow64[11]))
        output4   == Trunc(Shl(output3, 52), 64)
        output5   == Or(output4, And(fraction1, OnesBelow64[52]))
    IN  output5

(***************************************************************************)
(* arch/x86_64.rs: load_f80_into_f64 is  fld TBYTE PTR / fstp QWORD PTR.   *)
(* The store converts ST(0) to binary64 under the default control word     *)
(* (round to nearest even, exceptions masked).                             *)
(***************************************************************************)
\* Q + 1 when the bits dropped below position sh of M are above half a unit,
\* or exactly half with Q odd; else Q.
RoundNearestEven(M, sh) ==
    LET Q    == Shr(M, sh)
        rest == Trunc(M, sh)
        up   == \/ Less({sh - 1}, rest)
                \/ rest = {sh - 1} /\ 0 \in Q
    IN  IF up THEN Add(Q, {0}) ELSE Q

\* The default NaN stored for an invalid operand: 0xFFF8000000000000.
F64Indefinite == 51..63

load_f80_into_f64(self) ==
    LET E  == ToInt(Shr(Trunc(self, 79), 64))
        M  == Trunc(self, 64)
        s  == And(Shr(self, 16), {63})
        e  == E - 16383
    IN  IF E = 32767
        THEN IF 63 \notin M THEN F64Indefinite          \* pseudo-NaN, pseudo-infinity
             ELSE IF M = {63} THEN s \cup (52..62)       \* infinity
             ELSE s \cup (51..62) \cup Shr(Trunc(M, 63), 11)  \* NaN, quieted
        ELSE IF E = 0 THEN s                             \* zero, denormal: underflow to zero
        ELSE IF 63 \notin M THEN F64Indefinite           \* unnormal
        ELSE IF e >= -1022
        THEN LET Q  == RoundNearestEven(M, 11)
                 e1 == IF 53 \in Q THEN e + 1 ELSE e
             IN  IF e1 > 1023 THEN s \cup (52..62)       \* overflow to infinity
                 ELSE s \cup Shl(FromInt(e1 + 1023, 11), 52) \cup Trunc(Q, 52)
        ELSE IF -1022 - e > 54 THEN s                    \* below half the least denormal
        ELSE s \cup RoundNearestEven(M, 11 + (-1022 - e)) \* denormal result

(***************************************************************************)
(* The inputs explored.                                                    *)
(***************************************************************************)
\* Exponent fields around the boundaries: 0, true exponent -1023 (15360),
\* true exponent 0 (16383), the test value's exponent 3 (16386), true
\* exponent 1023 (17406), and the all-ones field (32767).
ExpFields ==
    {e \in 0..32767 :
        \E a \in {0, 15360, 16383, 16386, 17406, 32767} :
            e >= a - ExpSpread /\ e <= a + ExpSpread}

\* Fraction positions probed: the ends of the 63-bit fraction and both sides
\* of the cut at bit 11.
FracProbes == {0, 10, 11, 12, 61, 62}

\* The fraction of the test's sqrt(32) pattern, 0x3504f333f9de6484.
Sqrt32Fraction ==
    {2, 7, 10, 13, 14, 17, 18, 19, 20, 22, 23, 24, 27, 28, 29, 30, 31, 32,
    33, 36, 37, 40, 41, 44, 45, 46, 47, 50, 56, 58, 60, 61}

Fractions ==
    LET few == {S \in SUBSET FracProbes : Cardinality(S) <= MaxOnes}
    IN  few \cup {(0..62) \ S : S \in few} \cup {Sqrt32Fraction}

\* sign | exponent field | integer bit | fraction, as an 80-bit pattern.
Pack(s, e, i, f) ==
    Shl(FromInt(s, 1), 79) \cup Shl(FromInt(e, 15), 64)
        \cup Shl(FromInt(i, 1), 63) \cup f

Patterns80 ==
    {Pack(s, e, i, f) : s \in {0, 1}, e \in ExpFields, i \in {0, 1},
                        f \in Fractions}

\* 128-bit arguments with bits above bit 79 set.
HighBits == {{80}, {127}, 80..127}

Wide == {h \cup p : h \in HighBits,
                    p \in {Pack(s, e, 1, {}) : s \in {0, 1}, e \in {0, 16386, 32767}}
                          \cup {{}, 0..79}}

Inputs == Patterns80 \cup Wide

\* The (start, end) pairs range is called with: by the accessors and by the
\* tests.
RangeArgs == {<<0, 63>>, <<63, 64>>, <<64, 79>>, <<79, 80>>, <<0, 64>>,
              <<0, 8>>, <<5, 7>>}

(***************************************************************************)
(* The program.  f80 is Copy, every method takes self by value and none    *)
(* changes it, so a run is: a value is constructed, one method is called   *)
(* on it, and the bits that to_bits returns may construct a value again.   *)
(***************************************************************************)
VARIABLES
    arg,        \* the u128 last passed to from_bits
    bits,       \* the field of the f80 value
    call,       \* the last method called, with its arguments
    ret,        \* what it returned
    panicked    \* whether the call panicked (arithmetic overflow, checked)

vars == <<arg, bits, call, ret, panicked>>

NoRet == [u |-> {}, i |-> 0, b |-> FALSE]

Called(name) == [name |-> name, start |-> 0, end |-> 0]

\* A value has been constructed and no method called on it yet.
Fresh == call.name = "from_bits" /\ ~panicked

Init ==
    /\ arg \in Inputs
    /\ bits = from_bits(arg)
    /\ call = Called("from_bits")
    /\ ret = NoRet
    /\ panicked = FALSE

\* f80::from_bits(v.to_bits())
FromBits ==
    /\ call.name = "to_bits"
    /\ arg' = ret.u
    /\ bits' = from_bits(ret.u)
    /\ call' = Called("from_bits")
    /\ ret' = NoRet
    /\ UNCHANGED panicked

ToBits ==
    /\ Fresh
    /\ call' = Called("to_bits")
    /\ ret' = [NoRet EXCEPT !.u = to_bits(bits)]
    /\ UNCHANGED <<arg, bits, panicked>>

Range ==
    /\ Fresh
    /\ \E a \in RangeArgs :
        /\ call' = [name |-> "range", start |-> a[1], end |-> a[2]]
        /\ ret' = [NoRet EXCEPT !.u = range(bits, a[1], a[2])]
    /\ UNCHANGED <<arg, bits, panicked>>

Fraction ==
    /\ Fresh
    /\ call' = Called("fraction")
    /\ ret' = [NoRet EXCEPT !.u = fraction(bits)]
    /\ UNCHANGED <<arg, bits, panicked>>

IntBit ==
    /\ Fresh
    /\ call' = Called("int")
    /\ ret' = [NoRet EXCEPT !.b = int(bits)]
    /\ UNCHANGED <<arg, bits, panicked>>

ExpBits ==
    /\ Fresh
    /\ call' = Called("exp_bits")
    /\ ret' = [NoRet EXCEPT !.u = exp_bits(bits)]
    /\ UNCHANGED <<arg, bits, panicked>>

\* The subtraction in exp is checked for overflow in a build with overflow
\* checks (it panics) and wraps in a build without.
Exp ==
    /\ Fresh
    /\ call' = Called("exp")
    /\ IF exp_overflows(bits)
       THEN \/ panicked' = TRUE /\ ret' = NoRet
            \/ panicked' = FALSE /\ ret' = [NoRet EXCEPT !.i = exp(bits)]
       ELSE panicked' = FALSE /\ ret' = [NoRet EXCEPT !.i = exp(bits)]
    /\ UNCHANGED <<arg, bits>>

Sign ==
    /\ Fresh
    /\ call' = Called("sign")
    /\ ret' = [NoRet EXCEPT !.b = sign(bits)]
    /\ UNCHANGED <<arg, bits, panicked>>

\* exp += f64_bias  is checked for overflow in a build with overflow checks
\* (a debug build, the default of `cargo test`): it panics.  In a build
\* without (a release build) it wraps.
ToF64 ==
    /\ Fresh
    /\ call' = Called("to_f64")
    /\ \/ /\ exp_overflows(bits) \/ to_f64_overflows(bits)
          /\ panicked' = TRUE
          /\ ret' = NoRet
       \/ /\ panicked' = FALSE
          /\ ret' = [NoRet EXCEPT !.u = to_f64(bits)]
    /\ UNCHANGED <<arg, bits>>

\* The hardware conversion of the value's ten bytes.
LoadF80IntoF64 ==
    /\ Fresh
    /\ call' = Called("load_f80_into_f64")
    /\ ret' = [NoRet EXCEPT !.u = load_f80_into_f64(bits)]
    /\ UNCHANGED <<arg, bits, panicked>>

Next ==
    \/ FromBits
    \/ ToBits
    \/ Range
    \/ Fraction
    \/ IntBit
    \/ ExpBits
    \/ Exp
    \/ Sign
    \/ ToF64
    \/ LoadF80IntoF64

Spec == Init /\ [][Next]_vars

(***************************************************************************)
(* Reading an IEEE-754 binary64 pattern.                                   *)
(***************************************************************************)
\* The 11-bit exponent field of a 64-bit pattern, as a number.
F64ExpField(d) == ToInt(Shr(Trunc(d, 63), 52))

\* Its 52-bit fraction field.
F64Fraction(d) == Trunc(d, 52)

F64IsNaN(d) == F64ExpField(d) = 2047 /\ F64Fraction(d) # {}

\* The 80-bit pattern's exponent field is the reserved all-ones value 0x7FFF.
MaxExponent(self) == exp_bits(self) = 0..14

Returned(name) == call.name = name /\ ~panicked

(***************************************************************************)
(* C4.  from_bits keeps exactly the low 80 bits of its argument: to_bits   *)
(* returns x mod 2^80, bits 80..127 of every constructed value are zero,   *)
(* and constructing again from to_bits gives the same pattern.             *)
(***************************************************************************)
C4_MaskingInvariant ==
    /\ bits = {i \in arg : i < 80}
    /\ bits \cap (80..127) = {}
    /\ Returned("to_bits") => ret.u = {i \in arg : i < 80}
    /\ Returned("to_bits") => from_bits(ret.u) = bits

\* to_bits has returned for an argument that had bits above bit 79.
C4_Witness ==
    /\ Returned("to_bits")
    /\ arg \cap (80..127) # {}
    /\ ret.u # {}
    /\ ret.u # arg

(***************************************************************************)
(* C9.  The accessors partition the 80 bits: to_bits is                    *)
(* sign * 2^79 + exp_bits * 2^64 + int * 2^63 + fraction with              *)
(* fraction < 2^63 and exp_bits < 2^15, range(0, 64) is int on top of      *)
(* fraction, and range(start, end) is (bits mod 2^end) div 2^start.        *)
(***************************************************************************)
C9_FieldPartition ==
    /\ Returned("to_bits") =>
          /\ ret.u = Add(Add(Add(Shl(BoolAsU64(sign(bits)), 79),
                                 Shl(exp_bits(bits), 64)),
                             Shl(BoolAsU64(int(bits)), 63)),
                         fraction(bits))
          /\ Less(fraction(bits), {63})
          /\ Less(exp_bits(bits), {15})
    /\ Returned("fraction") => ret.u = {i \in bits : i < 63}
    /\ Returned("int") => (ret.b <=> 63 \in bits)
    /\ Returned("exp_bits") => ret.u = {i - 64 : i \in {j \in bits : j >= 64 /\ j < 79}}
    /\ Returned("sign") => (ret.b <=> 79 \in bits)
    /\ Returned("range") =>
          /\ ret.u = {i - call.start :
                          i \in {j \in bits : j >= call.start /\ j < call.end}}
          /\ (call.start = 0 /\ call.end = 64) =>
                ret.u = Add(Shl(BoolAsU64(int(bits)), 63), fraction(bits))

\* to_bits has returned for a pattern with every field nonzero.
C9_Witness ==
    /\ Returned("to_bits")
    /\ sign(bits) /\ int(bits)
    /\ fraction(bits) # {} /\ exp_bits(bits) # {}

(***************************************************************************)
(* C8.  exp() is exp_bits() - 16383 as integers: exp_bits() is in          *)
(* 0..32767, exp() is in -16383..16384, and neither the cast to i16 nor    *)
(* the subtraction overflows.                                              *)
(***************************************************************************)
C8_BiasSymmetry ==
    call.name = "exp" =>
        /\ ~panicked
        /\ ~exp_overflows(bits)
        /\ ToInt(exp_bits(bits)) \in 0..32767
        /\ AsI16(exp_bits(bits)) = ToInt(exp_bits(bits))
        /\ ret.i = ToInt(exp_bits(bits)) - 16383
        /\ ret.i \in -16383..16384

\* exp() has returned a negative true exponent.
C8_Witness == Returned("exp") /\ ret.i < 0 /\ sign(bits)

(***************************************************************************)
(* C3.  to_f64 is total: it returns for every input, and no intermediate   *)
(* step (the i16 exponent cast to u64 plus the bias 1023, the shifts)      *)
(* overflows its integer width.                                            *)
(***************************************************************************)
C3_TotalNoOverflow ==
    call.name = "to_f64" =>
        /\ ~panicked
        /\ ~exp_overflows(bits)
        /\ ~to_f64_overflows(bits)

(***************************************************************************)
(* C1.  Exponent field 0x7FFF with a zero 64-bit mantissa converts to      *)
(* infinity of the input's sign: 0x7FF0000000000000 or 0xFFF0000000000000. *)
(***************************************************************************)
C1_Infinity ==
    (Returned("to_f64") /\ MaxExponent(bits) /\ range(bits, 0, 64) = {}) =>
        ret.u = (IF sign(bits) THEN {63} ELSE {}) \cup (52..62)

(***************************************************************************)
(* C2.  Exponent field 0x7FFF with a nonzero 64-bit mantissa converts to a *)
(* NaN: exponent field 0x7FF and a nonzero fraction field.                 *)
(***************************************************************************)
C2_NaN ==
    (Returned("to_f64") /\ MaxExponent(bits) /\ range(bits, 0, 64) # {}) =>
        F64IsNaN(ret.u)

TrueExponent(self) ==
    ToInt({i - 64 : i \in {j \in self : j >= 64 /\ j < 79}}) - 16383

NormalInDoubleRange(self) ==
    63 \in self /\ TrueExponent(self) \in -1022..1023

\* The 53-bit significand of a normal double, implicit bit included.
F64Significand(d) == {52} \cup F64Fraction(d)

\* 302277571763841567555584 = 0x4002_8000_0000_0000_0000
EightPattern == {63, 65, 78}

Variants(self) ==
    {(self \ ((0..10) \cup {63})) \cup low \cup top :
        low \in (SUBSET {0, 10}) \cup {0..10, 1..9},
        top \in {{}, {63}}}

C10_IgnoredBits ==
    Returned("to_f64") =>
        \A v \in Variants(bits) : to_f64(v) = ret.u

\* to_f64 has returned for an input with integer bit 0 and low fraction bits
\* set.
C10_Witness ==
    /\ Returned("to_f64")
    /\ 63 \notin bits
    /\ bits \cap (0..10) # {}
    /\ bits \cap (11..62) # {}

(***************************************************************************)
(* C7.  When the exponent field is not 0x7FFF, to_f64 and the hardware     *)
(* conversion return values that differ by less than 1e-6.                 *)
(* A finite double is compared as a fixed-point number in units of         *)
(* 2^-1074; d < 10^-6 is d * 5^6 < 2^-6, that is 15625 * d < 2^1068 units. *)
(***************************************************************************)
F64IsFinite(d) == F64ExpField(d) # 2047

\* The magnitude of a finite double in units of 2^-1074.
F64Magnitude(d) ==
    IF F64ExpField(d) = 0 THEN F64Fraction(d)
    ELSE Shl(F64Significand(d), F64ExpField(d) - 1)

\* 15625 = 2^13 + 2^12 + 2^11 + 2^10 + 2^8 + 2^3 + 2^0
Times15625(X) ==
    Add(Add(Add(Add(Add(Add(X, Shl(X, 3)), Shl(X, 8)), Shl(X, 10)),
                Shl(X, 11)), Shl(X, 12)), Shl(X, 13))

\* |a - b| < 1e-6 for two doubles; never for a NaN or an infinity, as in
\* the tests' (a - b).abs() < 0.000001.
Within1e6(a, b) ==
    /\ F64IsFinite(a) /\ F64IsFinite(b)
    /\ LET A  == Times15625(F64Magnitude(a))
           B  == Times15625(F64Magnitude(b))
           lo == IF Less(A, B) THEN A ELSE B
           hi == IF Less(A, B) THEN B ELSE A
       IN  IF (63 \in a) = (63 \in b) \/ A = {} \/ B = {}
           THEN Less(hi, Add(lo, {1068}))
           ELSE Less(Add(A, B), {1068})

C7_ConvertersAgree ==
    (Returned("to_f64") /\ ~MaxExponent(bits)) =>
        Within1e6(ret.u, load_f80_into_f64(bits))

====
